---- MODULE Spec2Model ----
(***************************************************************************)
(* Model of the unified gesture recognition front end                      *)
(* (frontend/src/App.js): the Flex polling adapter, the MediaPipe socket   *)
(* adapter with its frame renderer, the combined-result effect, the        *)
(* start/stop controller and the camera configuration panel.               *)
(***************************************************************************)
EXTENDS Integers, Sequences, FiniteSets, TLC

----------------------------------------------------------------------------
(* Bounds of the model *)

MaxInFlight == 2     \* Flex requests awaiting their response
CoreInFlight == 1    \* the same, where both backends run together
MaxPending == 2      \* images being decoded at one time
CorePending == 1     \* the same, where both backends run together
MaxBoxes == 2        \* detection boxes in one frame
MaxRequests == 2     \* camera requests awaiting their response
MaxFlips == 2        \* clicks on the flip buttons

----------------------------------------------------------------------------
(* JavaScript values *)

Undefined == [t |-> "undefined"]
Null == [t |-> "null"]
Str(chars) == [t |-> "string", s |-> chars]
Num(num) == [t |-> "number", n |-> num]
Obj(name) == [t |-> "object", o |-> name]
Bool(b) == [t |-> "boolean", b |-> b]

\* JavaScript truthiness, as used by !x, x || y and x && y
Truthy(v) ==
  CASE v.t = "undefined" -> FALSE
    [] v.t = "null" -> FALSE
    [] v.t = "string" -> v.s # <<>>
    [] v.t = "number" -> v.n # 0
    [] v.t = "boolean" -> v.b
    [] OTHER -> TRUE

\* x || null
OrNull(v) == IF Truthy(v) THEN v ELSE Null

\* x || y
Or(v, w) == IF Truthy(v) THEN v ELSE w

\* String.prototype.trim on the characters of the model
RECURSIVE trimStart(_)
trimStart(chars) ==
  IF chars # <<>> /\ Head(chars) = " " THEN trimStart(Tail(chars)) ELSE chars

RECURSIVE trimEnd(_)
trimEnd(chars) ==
  IF chars # <<>> /\ chars[Len(chars)] = " "
  THEN trimEnd(SubSeq(chars, 1, Len(chars) - 1))
  ELSE chars

trim(chars) == trimEnd(trimStart(chars))

\* String.prototype.toLowerCase / toUpperCase on the letters of the model
LowerOf(c) ==
  CASE c = "F" -> "f"
    [] c = "P" -> "p"
    [] OTHER -> c

UpperOf(c) ==
  CASE c = "f" -> "F"
    [] c = "p" -> "P"
    [] OTHER -> c

toLowerCase(chars) == [i \in 1..Len(chars) |-> LowerOf(chars[i])]

toUpperCase(chars) == [i \in 1..Len(chars) |-> UpperOf(chars[i])]

\* x?.toLowerCase() throws a TypeError when x is neither nullish nor a string
LowerThrows(v) == v.t \notin {"undefined", "null", "string"}

\* Variant of OptLower that keeps the letter case of the label
OptLowerKeepCase(v) == IF v.t = "string" THEN v ELSE Undefined

\* x?.toLowerCase()
OptLower(v) == IF v.t = "string" THEN Str(toLowerCase(v.s)) ELSE Undefined

----------------------------------------------------------------------------
(* State *)

VARIABLES
  flexConnected, flexPrediction, flexValues, flexError, flexIntervalRef,
  mediapipeConnected, mediapipePrediction, mediapipeError,
  canvas, socketRef, matchResult, isRunning,
  mounted,          \* the App component is mounted (canvasRef.current is set)
  flexInFlight,     \* number of fetches whose promise is not settled yet
  flexResponse,     \* outcome of the fetch that settled last
  staleRequests,    \* requests in flight issued before the one that settled last
  socketState,      \* state of the socket.io connection held in socketRef
  pendingImages,    \* frames whose Image has not fired onload yet, oldest first
  staleImages,      \* how many of them arrived before the frame drawn last
  reconnectAttempts, \* reconnection attempts of the socket since it last connected
  timers,           \* intervals armed in the browser
  timerBalance,     \* setInterval calls less clearInterval calls
  sockets,          \* socket.io connections the client has open
  socketBalance,    \* io() calls less disconnect() calls
  listeners,        \* sets of handlers registered on open connections
  lastCall,         \* the function called last outside the control button
  lastFrame,        \* the frame whose image was decoded last
  cameraRotation,
  cameraRequests,   \* requests to the camera endpoints awaiting their response
  cameraUrl, cameraStatus, cameraLoading, showConfig,
  flipHorizontal, flipVertical,
  lastAlert,        \* the message of the alert() shown last
  cameraResponse,   \* outcome of the camera request that settled last
  flipLog           \* the clicks on the flip buttons and what came of them

flexVars == <<flexConnected, flexPrediction, flexValues, flexError>>
flexNet == <<flexInFlight, flexResponse, staleRequests>>
visionVars == <<mediapipeConnected, mediapipePrediction, mediapipeError>>
visionNet == <<socketState, pendingImages, staleImages>>
flexRes == <<timers, timerBalance>>
visionRes == <<sockets, socketBalance, listeners>>
camera == <<cameraRotation, cameraRequests, cameraUrl, cameraStatus,
            cameraLoading, showConfig, flipHorizontal, flipVertical, lastAlert,
            cameraResponse, flipLog>>
vars == <<flexConnected, flexPrediction, flexValues, flexError, flexIntervalRef,
          mediapipeConnected, mediapipePrediction, mediapipeError,
          canvas, socketRef, matchResult, isRunning, mounted,
          flexInFlight, flexResponse, staleRequests,
          socketState, pendingImages, staleImages, reconnectAttempts,
          timers, timerBalance, sockets, socketBalance, listeners, lastCall,
          lastFrame, cameraRotation, cameraRequests, cameraUrl, cameraStatus,
          cameraLoading, showConfig, flipHorizontal, flipVertical, lastAlert,
          cameraResponse, flipLog>>

----------------------------------------------------------------------------
(* Combined result *)

\* x?.gesture
GestureOf(prediction) ==
  IF prediction = Null THEN Undefined ELSE prediction.gesture

WaitingResult ==
  [status |-> "waiting", message |-> <<"Waiting for predictions...">>]

\* Variant of CombinedResult that waits only for a missing gesture, not for an
\* empty one
CombinedResultNoEmptyCheck(flexPred, mediapipePred) ==
  IF \/ GestureOf(flexPred).t # "string"
     \/ GestureOf(mediapipePred).t # "string"
  THEN WaitingResult
  ELSE LET flexGesture == flexPred.gesture
           mediapipeGesture == mediapipePred.gesture
       IN IF flexGesture = mediapipeGesture
          THEN [status |-> "match",
                message |-> <<"MATCH: ">> \o toUpperCase(flexGesture.s)]
          ELSE [status |-> "mismatch",
                message |-> <<"MISMATCH - Flex: ">> \o flexGesture.s
                            \o <<", MediaPipe: ">> \o mediapipeGesture.s]

\* Variant of CombinedResult that names the two gestures of a mismatch in the
\* other order
CombinedResultSwapped(flexPred, mediapipePred) ==
  IF ~Truthy(GestureOf(flexPred)) \/ ~Truthy(GestureOf(mediapipePred))
  THEN WaitingResult
  ELSE LET flexGesture == flexPred.gesture
           mediapipeGesture == mediapipePred.gesture
       IN IF flexGesture = mediapipeGesture
          THEN [status |-> "match",
                message |-> <<"MATCH: ">> \o toUpperCase(flexGesture.s)]
          ELSE [status |-> "mismatch",
                message |-> <<"MISMATCH - Flex: ">> \o mediapipeGesture.s
                            \o <<", MediaPipe: ">> \o flexGesture.s]

\* Body of the combined-result effect: the value it passes to setMatchResult.
\* A message is the sequence of its parts; the emoji that opens the match and
\* mismatch messages is left out.
CombinedResult(flexPred, mediapipePred) ==
  IF ~Truthy(GestureOf(flexPred)) \/ ~Truthy(GestureOf(mediapipePred))
  THEN WaitingResult
  ELSE LET flexGesture == flexPred.gesture
           mediapipeGesture == mediapipePred.gesture
       IN IF flexGesture = mediapipeGesture
          THEN [status |-> "match",
                message |-> <<"MATCH: ">> \o toUpperCase(flexGesture.s)]
          ELSE [status |-> "mismatch",
                message |-> <<"MISMATCH - Flex: ">> \o flexGesture.s
                            \o <<", MediaPipe: ">> \o mediapipeGesture.s]

\* Variants of EffectRuns whose dependency list names one prediction only
EffectRunsFlexOnly(old, new) ==
  new.flexPrediction # old.flexPrediction

EffectRunsMediapipeOnly(old, new) ==
  new.mediapipePrediction # old.mediapipePrediction

\* The effect runs after a commit in which one of its dependencies
\* [flexPrediction, mediapipePrediction] changed.  A handler that stores a
\* prediction equal to the previous one stores a new object and re-runs the
\* effect, which then computes the result it had computed before.
EffectRuns(old, new) ==
  \/ new.flexPrediction # old.flexPrediction
  \/ new.mediapipePrediction # old.mediapipePrediction

\* A commit of the state written by a handler, followed by the effect
Commit(old, new) ==
  IF EffectRuns(old, new)
  THEN [new EXCEPT !.matchResult =
          CombinedResult(new.flexPrediction, new.mediapipePrediction)]
  ELSE new

\* The React state of the component
ui ==
  [flexConnected |-> flexConnected, flexPrediction |-> flexPrediction,
   flexValues |-> flexValues, flexError |-> flexError,
   mediapipeConnected |-> mediapipeConnected,
   mediapipePrediction |-> mediapipePrediction,
   mediapipeError |-> mediapipeError,
   matchResult |-> matchResult, isRunning |-> isRunning]

\* The component re-renders with state st; a state update on an unmounted
\* component is dropped
Render(st) ==
  LET next == IF mounted THEN Commit(ui, st) ELSE ui
  IN /\ flexConnected' = next.flexConnected
     /\ flexPrediction' = next.flexPrediction
     /\ flexValues' = next.flexValues
     /\ flexError' = next.flexError
     /\ mediapipeConnected' = next.mediapipeConnected
     /\ mediapipePrediction' = next.mediapipePrediction
     /\ mediapipeError' = next.mediapipeError
     /\ matchResult' = next.matchResult
     /\ isRunning' = next.isRunning

----------------------------------------------------------------------------
(* Flex backend *)

FlexErrorMessage == Str(<<"Cannot reach Flex backend">>)

Malformed == [t |-> "malformed"]

\* await fetch(...) rejects, or await res.json() rejects, or building the
\* prediction throws: control reaches the catch branch
FlexThrows(resp) ==
  \/ resp.kind = "reject"
  \/ resp.body = Malformed
  \/ LowerThrows(resp.body.gesture)

\* Variant of fetchFlexPrediction whose catch branch also drops the
\* prediction
fetchFlexPredictionForgets(st, resp) ==
  IF FlexThrows(resp)
  THEN [st EXCEPT !.flexError = FlexErrorMessage,
                  !.flexConnected = FALSE,
                  !.flexPrediction = Null]
  ELSE LET data == resp.body
       IN [st EXCEPT
             !.flexPrediction =
                [gesture |-> OptLower(data.gesture),
                 confidence |-> OrNull(data.confidence),
                 classId |-> data.predicted_class],
             !.flexValues = OrNull(data.latest_values),
             !.flexConnected = TRUE,
             !.flexError = Null]

\* State written by fetchFlexPrediction once the fetch has settled with resp
fetchFlexPrediction(st, resp) ==
  IF FlexThrows(resp)
  THEN [st EXCEPT !.flexError = FlexErrorMessage,
                  !.flexConnected = FALSE]
  ELSE LET data == resp.body
       IN [st EXCEPT
             !.flexPrediction =
                [gesture |-> OptLower(data.gesture),
                 confidence |-> OrNull(data.confidence),
                 classId |-> data.predicted_class],
             !.flexValues = OrNull(data.latest_values),
             !.flexConnected = TRUE,
             !.flexError = Null]

----------------------------------------------------------------------------
(* MediaPipe backend *)

MediapipeErrorMessage == Str(<<"Cannot connect to MediaPipe backend">>)

MAX_WIDTH == 480

Arr(elems) == [t |-> "array", a |-> elems]

BlankCanvas == [image |-> "blank", width |-> 0, height |-> 0, rect |-> Null, text |-> Null]

RECURSIVE GCD(_, _)
GCD(m, n) == IF n = 0 THEN m ELSE GCD(n, m % n)

Abs(n) == IF n < 0 THEN 0 - n ELSE n

\* The number n / d (d > 0) in lowest terms
Ratio(n, d) ==
  LET g == GCD(Abs(n), d)
  IN [num |-> n \div g, den |-> d \div g]

DigitChars == <<"0", "1", "2", "3", "4", "5", "6", "7", "8", "9">>

\* The decimal digits of a natural number
RECURSIVE DigitsOf(_)
DigitsOf(n) ==
  IF n < 10 THEN <<DigitChars[n + 1]>>
  ELSE DigitsOf(n \div 10) \o <<DigitChars[(n % 10) + 1]>>

\* String(x) of a template literal; a number is a count of hundredths and
\* is written in the shortest decimal form, as in 0.92, 0.5 and 1
TemplateText(v) ==
  CASE v.t = "string" -> v.s
    [] v.t = "undefined" -> <<"undefined">>
    [] v.t = "null" -> <<"null">>
    [] v.t = "number" ->
         LET units == DigitsOf(v.n \div 100)
             tenths == DigitChars[((v.n % 100) \div 10) + 1]
             hundredths == DigitChars[(v.n % 10) + 1]
         IN IF v.n % 100 = 0 THEN units
            ELSE IF v.n % 10 = 0 THEN units \o <<".", tenths>>
            ELSE units \o <<".", tenths, hundredths>>
    [] OTHER -> <<"[object Object]">>

\* Variant of DrawFrame whose scale is MAX_WIDTH / img.height
DrawFrameByHeight(frame) ==
  LET img == frame.image
      preds == IF Truthy(frame.predictions) THEN frame.predictions.a ELSE <<>>
      base == [image |-> img.src, width |-> MAX_WIDTH,
               height |-> (img.height * MAX_WIDTH) \div img.height,
               rect |-> Null, text |-> Null]
  IN IF Len(preds) > 0
     THEN LET firstPred == preds[1]
              x1 == firstPred.bbox[1]
              y1 == firstPred.bbox[2]
              x2 == firstPred.bbox[3]
              y2 == firstPred.bbox[4]
          IN [base EXCEPT
                !.rect = [x |-> Ratio(x1 * MAX_WIDTH, img.height),
                          y |-> Ratio(y1 * MAX_WIDTH, img.height),
                          w |-> Ratio((x2 - x1) * MAX_WIDTH, img.height),
                          h |-> Ratio((y2 - y1) * MAX_WIDTH, img.height)],
                !.text = [label |-> firstPred.label,
                          confidence |-> firstPred.confidence,
                          str |-> TemplateText(firstPred.label) \o <<" (">>
                                    \o TemplateText(firstPred.confidence)
                                    \o <<")">>,
                          x |-> Ratio(x1 * MAX_WIDTH, img.height),
                          y |-> Ratio(y1 * MAX_WIDTH - 8 * img.height,
                                      img.height)]]
     ELSE base

\* What img.onload leaves on the canvas for a decoded frame. scale is
\* MAX_WIDTH / img.width and v * scale is the exact quotient
\* v * MAX_WIDTH / img.width; canvas.height, a whole number of pixels, takes
\* the integer part of img.height * scale
DrawFrame(frame) ==
  LET img == frame.image
      preds == IF Truthy(frame.predictions) THEN frame.predictions.a ELSE <<>>
      base == [image |-> img.src, width |-> MAX_WIDTH,
               height |-> (img.height * MAX_WIDTH) \div img.width,
               rect |-> Null, text |-> Null]
  IN IF Len(preds) > 0
     THEN LET firstPred == preds[1]
              x1 == firstPred.bbox[1]
              y1 == firstPred.bbox[2]
              x2 == firstPred.bbox[3]
              y2 == firstPred.bbox[4]
          IN [base EXCEPT
                !.rect = [x |-> Ratio(x1 * MAX_WIDTH, img.width),
                          y |-> Ratio(y1 * MAX_WIDTH, img.width),
                          w |-> Ratio((x2 - x1) * MAX_WIDTH, img.width),
                          h |-> Ratio((y2 - y1) * MAX_WIDTH, img.width)],
                !.text = [label |-> firstPred.label,
                          confidence |-> firstPred.confidence,
                          str |-> TemplateText(firstPred.label) \o <<" (">>
                                    \o TemplateText(firstPred.confidence)
                                    \o <<")">>,
                          x |-> Ratio(x1 * MAX_WIDTH, img.width),
                          y |-> Ratio(y1 * MAX_WIDTH - 8 * img.width,
                                      img.width)]]
     ELSE base

\* Variant of FramePrediction that takes the last box of the list
FramePredictionLastBox(frame) ==
  LET preds == IF Truthy(frame.predictions) THEN frame.predictions.a ELSE <<>>
  IN IF Len(preds) > 0
     THEN [gesture |-> OptLower(preds[Len(preds)].label),
           confidence |-> preds[Len(preds)].confidence]
     ELSE Null

\* The value img.onload passes to setMediapipePrediction
FramePrediction(frame) ==
  LET preds == IF Truthy(frame.predictions) THEN frame.predictions.a ELSE <<>>
  IN IF Len(preds) > 0
     THEN [gesture |-> OptLower(preds[1].label),
           confidence |-> preds[1].confidence]
     ELSE Null

\* Variant of onload that leaves the prediction alone when the frame has no
\* detection
onloadKeepsPrediction(st, frame) ==
  IF FramePrediction(frame) = Null
  THEN st
  ELSE [st EXCEPT !.mediapipePrediction = FramePrediction(frame)]

\* State written by img.onload
onload(st, frame) ==
  [st EXCEPT !.mediapipePrediction = FramePrediction(frame)]

----------------------------------------------------------------------------
(* Inputs *)

Body(g, c, k, v) ==
  [gesture |-> g, confidence |-> c, predicted_class |-> k, latest_values |-> v]

LatestValues == Obj("latest_values")

\* gesture of a /predict body: missing, empty, a label, or not a string
FlexGestures == {Undefined, Str(<<>>), Str(<<"F">>), Str(<<"p">>), Num(7)}

\* confidence (in hundredths), predicted_class and latest_values of a body
FlexDetails ==
  {<<Undefined, Undefined, Undefined>>, <<Num(0), Num(1), LatestValues>>,
   <<Num(92), Num(1), LatestValues>>, <<Num(92), Undefined, Undefined>>}

FlexBodies == {Body(g, d[1], d[2], d[3]) : g \in FlexGestures, d \in FlexDetails}

\* A body without any of the prediction fields, such as {"detail": "..."}
ErrorBody == Body(Undefined, Undefined, Undefined, Undefined)

Rejected == [kind |-> "reject"]

Response(ok, body) == [kind |-> "response", ok |-> ok, body |-> body]

\* Outcomes of fetch(getFlexEndpoint('/predict')): the promise rejects, or it
\* resolves with a response of success status (ok) or of error status
FlexResponses ==
  {Rejected}
  \cup {Response(TRUE, b) : b \in FlexBodies \cup {Malformed}}
  \cup {Response(FALSE, b) : b \in {ErrorBody, Malformed}}

\* The outcomes used where both backends run together
CoreFlexResponses ==
  {Rejected}
  \cup {Response(TRUE, Body(g, Num(92), Num(1), LatestValues)) :
          g \in {Undefined, Str(<<>>), Str(<<"F">>), Str(<<"p">>)}}

\* Outcomes that reach the catch branch, and two that do not
FailingFlexResponses ==
  {Rejected, Response(TRUE, Malformed), Response(FALSE, Malformed)}
  \cup {Response(TRUE, Body(Str(<<g>>), Num(92), Num(1), LatestValues)) :
          g \in {"F", "p"}}

NoResponse == [kind |-> "none"]

Box(label, conf, bbox) == [label |-> label, confidence |-> conf, bbox |-> bbox]

Boxes ==
  {Box(Str(<<"f">>), Num(92), <<10, 20, 110, 120>>),
   Box(Str(<<"P">>), Num(80), <<40, 40, 80, 100>>)}

\* A detection without a label
UnlabelledBox == Box(Undefined, Num(50), <<0, 0, 20, 20>>)

BoxLists == UNION {[1..n -> Boxes] : n \in 0..MaxBoxes}

Image(src, width, height) == [src |-> src, width |-> width, height |-> height]

Images == {Image("a", 960, 720), Image("b", 960, 720)}

\* new_frame events: predictions is missing or a list of boxes
Frames ==
  {[image |-> img, predictions |-> p] :
     img \in Images, p \in {Undefined} \cup {Arr(l) : l \in BoxLists}}
  \cup {[image |-> Image("a", 960, 720), predictions |-> Arr(<<UnlabelledBox>>)]}

\* The events used where both backends run together
CoreFrames ==
  {[image |-> Image("a", 960, 720), predictions |-> Arr(l)] :
     l \in {<<>>} \cup {<<b>> : b \in Boxes \cup {UnlabelledBox}}}

\* The events with every list of boxes, on one image
BoxFrames ==
  {[image |-> Image("a", 960, 720), predictions |-> Arr(l)] :
     l \in BoxLists \cup {<<UnlabelledBox>>}}

\* The box of the rendering example, and a box whose corners do not fall on
\* whole pixels of the canvas
FistBox == Box(Str(<<"f", "i", "s", "t">>), Num(92), <<10, 20, 110, 120>>)

OddBox == Box(Str(<<"P">>), Num(50), <<5, 7, 20, 31>>)

\* The events with one box on images of several sizes
SizedFrames ==
  {[image |-> img, predictions |-> Arr(<<b>>)] :
     img \in {Image("a", 960, 720), Image("c", 640, 480),
              Image("d", 500, 333)},
     b \in {FistBox, OddBox}}

\* The events without a box: the list is missing or empty
EmptyFrames ==
  {[image |-> img, predictions |-> p] :
     img \in Images, p \in {Undefined, Arr(<<>>)}}

\* A call of one of the component's functions: its name, the name of the call
\* before it, a bit that tells two calls of one function apart, and whether a
\* timer was armed and a connection open when it was made
NoCall ==
  [fn |-> "none", prev |-> "none", flip |-> FALSE, armed |-> FALSE,
   open |-> FALSE]

NoFrame == [image |-> Null, predictions |-> Undefined]

\* s without its i-th element
RemoveAt(s, i) == SubSeq(s, 1, i - 1) \o SubSeq(s, i + 1, Len(s))

----------------------------------------------------------------------------
(* Operations *)

Request(path, body) == [path |-> path, body |-> body]

\* The GET /camera_status of fetchCameraStatus
CameraStatusRequest == Request("/camera_status", Undefined)

\* The POST /stop_camera of stopCamera
StopCameraRequest == Request("/stop_camera", Undefined)

\* No flip button has been clicked. start: the flips shown at the first
\* click; settled: whether fetchCameraStatus had settled by then; clicks: the
\* buttons clicked; last: the body sent by the last click; applied: how many
\* answers have been written to the flips
NoFlips ==
  [start |-> Null, settled |-> TRUE, clicks |-> <<>>, last |-> Null,
   applied |-> 0]

\* The state after the first render, whose mount effect has called
\* fetchCameraStatus
Init ==
  /\ flexConnected = FALSE
  /\ flexPrediction = Null
  /\ flexValues = Null
  /\ flexError = Null
  /\ flexIntervalRef = Null
  /\ mediapipeConnected = FALSE
  /\ mediapipePrediction = Null
  /\ mediapipeError = Null
  /\ canvas = BlankCanvas
  /\ socketRef = Null
  /\ matchResult = WaitingResult
  /\ isRunning = FALSE
  /\ mounted = TRUE
  /\ flexInFlight = 0
  /\ flexResponse = NoResponse
  /\ staleRequests = 0
  /\ socketState = "closed"
  /\ pendingImages = <<>>
  /\ staleImages = 0
  /\ reconnectAttempts = 0
  /\ timers = 0
  /\ timerBalance = 0
  /\ sockets = 0
  /\ socketBalance = 0
  /\ listeners = 0
  /\ lastCall = NoCall
  /\ lastFrame = NoFrame
  /\ cameraRotation = Num(0)
  /\ cameraRequests = <<CameraStatusRequest>>
  /\ cameraUrl = Str(<<>>)
  /\ cameraStatus = [connected |-> Bool(FALSE), url |-> Str(<<>>)]
  /\ cameraLoading = FALSE
  /\ showConfig = TRUE
  /\ flipHorizontal = Bool(TRUE)
  /\ flipVertical = Bool(FALSE)
  /\ lastAlert = Null
  /\ cameraResponse = NoResponse
  /\ flipLog = NoFlips

\* Variant of startFlexPolling without the check of flexIntervalRef.current
startFlexPollingUnguarded ==
  /\ flexIntervalRef' = Obj("interval")
  /\ timers' = timers + 1
  /\ timerBalance' = timerBalance + 1

startFlexPolling ==
  IF Truthy(flexIntervalRef)
  THEN UNCHANGED <<flexIntervalRef, flexRes>>
  ELSE /\ flexIntervalRef' = Obj("interval")
       /\ timers' = timers + 1
       /\ timerBalance' = timerBalance + 1

\* Variant of stopFlexPolling without the check of flexIntervalRef.current;
\* clearInterval(null) disarms nothing
stopFlexPollingUnguarded ==
  /\ flexIntervalRef' = Null
  /\ timers' = IF Truthy(flexIntervalRef) THEN timers - 1 ELSE timers
  /\ timerBalance' = timerBalance - 1

stopFlexPolling ==
  IF Truthy(flexIntervalRef)
  THEN /\ flexIntervalRef' = Null
       /\ timers' = timers - 1
       /\ timerBalance' = timerBalance - 1
  ELSE UNCHANGED <<flexIntervalRef, flexRes>>

\* Variant of connectMediapipe without the check of socketRef.current
connectMediapipeUnguarded ==
  /\ socketRef' = Obj("sio")
  /\ socketState' = "connecting"
  /\ reconnectAttempts' = 0
  /\ sockets' = sockets + 1
  /\ socketBalance' = socketBalance + 1
  /\ listeners' = listeners + 1

\* io(...) opens a connection and the four sio.on(...) calls register one set
\* of handlers on it
connectMediapipe ==
  IF Truthy(socketRef)
  THEN UNCHANGED <<socketRef, socketState, reconnectAttempts, visionRes>>
  ELSE /\ socketRef' = Obj("sio")
       /\ socketState' = "connecting"
       /\ reconnectAttempts' = 0
       /\ sockets' = sockets + 1
       /\ socketBalance' = socketBalance + 1
       /\ listeners' = listeners + 1

\* Variant of disconnectMediapipe that keeps the socket in socketRef.current
disconnectMediapipeKeepsRef ==
  IF Truthy(socketRef)
  THEN /\ socketRef' = socketRef
       /\ socketState' = "closed"
       /\ reconnectAttempts' = 0
       /\ sockets' = IF socketState = "closed" THEN sockets ELSE sockets - 1
       /\ socketBalance' = socketBalance - 1
       /\ listeners' = IF socketState = "closed" THEN listeners
                       ELSE listeners - 1
  ELSE UNCHANGED <<socketRef, socketState, reconnectAttempts, visionRes>>

\* sio.disconnect() closes the connection, which fires the disconnect handler
\* of a connected socket, and no handler of the socket is called afterwards
disconnectMediapipe ==
  IF Truthy(socketRef)
  THEN /\ socketRef' = Null
       /\ socketState' = "closed"
       /\ reconnectAttempts' = 0
       /\ sockets' = sockets - 1
       /\ socketBalance' = socketBalance - 1
       /\ listeners' = listeners - 1
  ELSE UNCHANGED <<socketRef, socketState, reconnectAttempts, visionRes>>

\* Variant of disconnected that also drops the MediaPipe prediction
disconnectedDropsPrediction(st) ==
  IF Truthy(socketRef)
  THEN [st EXCEPT !.mediapipeConnected = FALSE, !.mediapipePrediction = Null]
  ELSE st

\* State written by disconnectMediapipe
disconnected(st) ==
  IF Truthy(socketRef) THEN [st EXCEPT !.mediapipeConnected = FALSE] ELSE st

\* The control button while it shows "Start Detection"
startAll ==
  /\ mounted
  /\ ~isRunning
  /\ startFlexPolling
  /\ connectMediapipe
  /\ Render([ui EXCEPT !.isRunning = TRUE])
  /\ UNCHANGED <<canvas, mounted, flexNet, pendingImages, staleImages,
                 lastCall, lastFrame, camera>>

\* Variant of stopAll that leaves isRunning as it is
stopAllKeepsRunning ==
  /\ mounted
  /\ isRunning
  /\ stopFlexPolling
  /\ disconnectMediapipe
  /\ Render(disconnected(ui))
  /\ UNCHANGED <<canvas, mounted, flexNet, pendingImages, staleImages,
                 lastCall, lastFrame, camera>>

\* The control button while it shows "Stop Detection"
stopAll ==
  /\ mounted
  /\ isRunning
  /\ stopFlexPolling
  /\ disconnectMediapipe
  /\ Render([disconnected(ui) EXCEPT !.isRunning = FALSE])
  /\ UNCHANGED <<canvas, mounted, flexNet, pendingImages, staleImages,
                 lastCall, lastFrame, camera>>

\* Variant of FlexTick in which a failed poll suspends the polling
FlexTickBackoff ==
  /\ timers > 0
  /\ flexError = Null
  /\ flexInFlight < MaxInFlight
  /\ flexInFlight' = flexInFlight + 1
  /\ UNCHANGED <<flexVars, flexIntervalRef, visionVars, canvas, socketRef,
                 matchResult, isRunning, mounted, flexResponse,
                 staleRequests, visionNet,
                 reconnectAttempts, flexRes, visionRes,
                 lastCall, lastFrame, camera>>

\* An armed interval fires and fetchFlexPrediction issues its request
FlexTick ==
  /\ timers > 0
  /\ flexInFlight < MaxInFlight
  /\ flexInFlight' = flexInFlight + 1
  /\ UNCHANGED <<flexVars, flexIntervalRef, visionVars, canvas, socketRef,
                 matchResult, isRunning, mounted, flexResponse,
                 staleRequests, visionNet,
                 reconnectAttempts, flexRes, visionRes,
                 lastCall, lastFrame, camera>>

\* The same with the bound used where both backends run together
FlexTickCore ==
  /\ timers > 0
  /\ flexInFlight < CoreInFlight
  /\ flexInFlight' = flexInFlight + 1
  /\ UNCHANGED <<flexVars, flexIntervalRef, visionVars, canvas, socketRef,
                 matchResult, isRunning, mounted, flexResponse,
                 staleRequests, visionNet,
                 reconnectAttempts, flexRes, visionRes,
                 lastCall, lastFrame, camera>>

\* Variant of FlexSettles that drops the response of a poll issued before
\* the one that settled last
FlexSettlesNewestIssued(responses, positions) ==
  \E resp \in responses, i \in positions \cap 1..flexInFlight :
    /\ flexInFlight' = flexInFlight - 1
    /\ flexResponse' = resp
    /\ staleRequests' = IF i <= staleRequests THEN staleRequests - 1 ELSE i - 1
    /\ Render(IF i <= staleRequests THEN ui ELSE fetchFlexPrediction(ui, resp))
    /\ UNCHANGED <<flexIntervalRef, canvas, socketRef, mounted, visionNet,
                   reconnectAttempts, flexRes, visionRes,
                 lastCall, lastFrame, camera>>

\* The fetch of one poll settles and fetchFlexPrediction resumes: the poll
\* is the i-th of those in flight, counted in the order of their issue
FlexSettles(responses, positions) ==
  \E resp \in responses, i \in positions \cap 1..flexInFlight :
    /\ flexInFlight' = flexInFlight - 1
    /\ flexResponse' = resp
    /\ staleRequests' = IF i <= staleRequests THEN staleRequests - 1 ELSE i - 1
    /\ Render(fetchFlexPrediction(ui, resp))
    /\ UNCHANGED <<flexIntervalRef, canvas, socketRef, mounted, visionNet,
                   reconnectAttempts, flexRes, visionRes,
                 lastCall, lastFrame, camera>>

\* The polls settle in the order of their issue
FlexResponse == FlexSettles(CoreFlexResponses, {1})

\* The polls settle in any order
FlexResponseAny == FlexSettles(FlexResponses, 1..MaxInFlight)

FlexResponseFailing == FlexSettles(FailingFlexResponses, {1})

\* Option reconnectionAttempts of io(...)
reconnectionAttempts == 5

\* Variant of SocketConnect that leaves mediapipeError as it is
SocketConnectKeepsError ==
  /\ socketState = "connecting"
  /\ socketState' = "connected"
  /\ reconnectAttempts' = 0
  /\ Render([ui EXCEPT !.mediapipeConnected = TRUE])
  /\ UNCHANGED <<flexIntervalRef, canvas, socketRef, mounted, flexNet,
                 pendingImages, staleImages, flexRes, visionRes,
                 lastCall, lastFrame, camera>>

\* sio.on("connect")
SocketConnect ==
  /\ socketState = "connecting"
  /\ socketState' = "connected"
  /\ reconnectAttempts' = 0
  /\ Render([ui EXCEPT !.mediapipeConnected = TRUE,
                       !.mediapipeError = Null])
  /\ UNCHANGED <<flexIntervalRef, canvas, socketRef, mounted, flexNet,
                 pendingImages, staleImages, flexRes, visionRes,
                 lastCall, lastFrame, camera>>

\* Variant of SocketDisconnect that also drops the prediction
SocketDisconnectClears ==
  /\ socketState = "connected"
  /\ socketState' = "connecting"
  /\ reconnectAttempts' = 1
  /\ Render([ui EXCEPT !.mediapipeConnected = FALSE,
                       !.mediapipePrediction = Null])
  /\ UNCHANGED <<flexIntervalRef, canvas, socketRef, mounted, flexNet,
                 pendingImages, staleImages, flexRes, visionRes,
                 lastCall, lastFrame, camera>>

\* sio.on("disconnect"): the connection is lost and the socket starts its
\* first reconnection attempt
SocketDisconnect ==
  /\ socketState = "connected"
  /\ socketState' = "connecting"
  /\ reconnectAttempts' = 1
  /\ Render([ui EXCEPT !.mediapipeConnected = FALSE])
  /\ UNCHANGED <<flexIntervalRef, canvas, socketRef, mounted, flexNet,
                 pendingImages, staleImages, flexRes, visionRes,
                 lastCall, lastFrame, camera>>

\* sio.on("connect_error"): the connection attempt under way fails; the
\* socket starts the next reconnection attempt, or gives up after
\* reconnectionAttempts of them
SocketConnectError ==
  /\ socketState = "connecting"
  /\ IF reconnectAttempts < reconnectionAttempts
     THEN /\ reconnectAttempts' = reconnectAttempts + 1
          /\ socketState' = "connecting"
     ELSE /\ reconnectAttempts' = reconnectAttempts
          /\ socketState' = "failed"
  /\ Render([ui EXCEPT !.mediapipeError = MediapipeErrorMessage,
                       !.mediapipeConnected = FALSE])
  /\ UNCHANGED <<flexIntervalRef, canvas, socketRef, mounted, flexNet,
                 pendingImages, staleImages, flexRes, visionRes,
                 lastCall, lastFrame, camera>>

\* Variant of the new_frame handler that writes the prediction on arrival
NewFrameOfOnArrival(frames, limit) ==
  \E frame \in frames :
    /\ socketState = "connected"
    /\ mounted
    /\ Len(pendingImages) < limit
    /\ pendingImages' = Append(pendingImages, frame)
    /\ Render(onload(ui, frame))
    /\ UNCHANGED <<flexIntervalRef, canvas, socketRef, mounted, flexNet,
                   socketState, staleImages, reconnectAttempts, flexRes,
                   visionRes, lastCall, lastFrame, camera>>

\* sio.on("new_frame"): the handler creates the Image and returns
NewFrameOf(frames, limit) ==
  \E frame \in frames :
    /\ socketState = "connected"
    /\ mounted
    /\ Len(pendingImages) < limit
    /\ pendingImages' = Append(pendingImages, frame)
    /\ UNCHANGED <<flexVars, flexIntervalRef, visionVars, canvas, socketRef,
                   matchResult, isRunning, mounted, flexNet, socketState,
                   staleImages, reconnectAttempts, flexRes, visionRes,
                 lastCall, lastFrame, camera>>

NewFrame == NewFrameOf(CoreFrames, CorePending)

NewFrameAny == NewFrameOf(Frames, MaxPending)

NewFrameOne == NewFrameOf(BoxFrames, CorePending)

NewFrameSized == NewFrameOf(SizedFrames, CorePending)

\* img.onload of a frame received earlier
ImageLoaded ==
  \E i \in 1..Len(pendingImages) :
    /\ pendingImages' = RemoveAt(pendingImages, i)
    /\ staleImages' = IF i <= staleImages THEN staleImages - 1 ELSE i - 1
    /\ lastFrame' = pendingImages[i]
    /\ canvas' = DrawFrame(pendingImages[i])
    /\ Render(onload(ui, pendingImages[i]))
    /\ UNCHANGED <<flexIntervalRef, socketRef, mounted, flexNet, socketState,
                   reconnectAttempts, flexRes, visionRes, lastCall,
                   camera>>

\* The image of a frame fails to decode: onload never fires
ImageError ==
  \E i \in 1..Len(pendingImages) :
    /\ pendingImages' = RemoveAt(pendingImages, i)
    /\ staleImages' = IF i <= staleImages THEN staleImages - 1 ELSE staleImages
    /\ UNCHANGED <<flexVars, flexIntervalRef, visionVars, canvas, socketRef,
                   matchResult, isRunning, mounted, flexNet, socketState,
                   reconnectAttempts, flexRes, visionRes,
                 lastCall, lastFrame, camera>>

\* The component unmounts: the cleanup effect runs and the state is dropped
Unmount ==
  /\ mounted
  /\ mounted' = FALSE
  /\ stopFlexPolling
  /\ disconnectMediapipe
  /\ UNCHANGED <<flexVars, visionVars, canvas, matchResult, isRunning,
                 flexNet, pendingImages, staleImages,
                 lastCall, lastFrame, camera>>

\* Both backends together
Next ==
  \/ startAll
  \/ stopAll
  \/ FlexTickCore
  \/ FlexResponse
  \/ SocketConnect
  \/ SocketDisconnect
  \/ SocketConnectError
  \/ NewFrame
  \/ ImageLoaded
  \/ ImageError
  \/ Unmount

Spec == Init /\ [][Next]_vars

\* The Flex adapter against every outcome of a poll
NextFlex ==
  \/ startAll
  \/ stopAll
  \/ FlexTick
  \/ FlexResponseAny
  \/ Unmount

SpecFlex == Init /\ [][NextFlex]_vars

\* setInterval keeps firing an armed interval every POLL_INTERVAL
SpecFlexLive == SpecFlex /\ WF_vars(FlexTick)

\* The MediaPipe adapter against every frame
NextVision ==
  \/ startAll
  \/ stopAll
  \/ SocketConnect
  \/ SocketDisconnect
  \/ SocketConnectError
  \/ NewFrameAny
  \/ ImageLoaded
  \/ ImageError
  \/ Unmount

SpecVision == Init /\ [][NextVision]_vars

\* The MediaPipe adapter against every list of boxes, the frames decoded in
\* the order of their arrival
NextFrames ==
  \/ startAll
  \/ stopAll
  \/ SocketConnect
  \/ SocketDisconnect
  \/ SocketConnectError
  \/ NewFrameOne
  \/ ImageLoaded
  \/ ImageError
  \/ Unmount

SpecFrames == Init /\ [][NextFrames]_vars

\* Both backends together, the Flex backend failing in every way
NextFailing ==
  \/ startAll
  \/ stopAll
  \/ FlexTickCore
  \/ FlexResponseFailing
  \/ SocketConnect
  \/ SocketDisconnect
  \/ SocketConnectError
  \/ NewFrame
  \/ ImageLoaded
  \/ ImageError
  \/ Unmount

SpecFailing == Init /\ [][NextFailing]_vars

\* The frame renderer against images of several sizes
NextSizes ==
  \/ startAll
  \/ stopAll
  \/ SocketConnect
  \/ NewFrameSized
  \/ ImageLoaded
  \/ ImageError
  \/ Unmount

SpecSizes == Init /\ [][NextSizes]_vars

\* lastCall after a call of function fn
Record(fn) ==
  lastCall' = [fn |-> fn, prev |-> lastCall.fn, flip |-> ~lastCall.flip,
               armed |-> timers > 0, open |-> sockets > 0]

\* The functions of the two adapters and of the controller, called in any
\* order and in any state of the mounted component
CallStartFlexPolling ==
  /\ mounted
  /\ Record("startFlexPolling")
  /\ startFlexPolling
  /\ UNCHANGED <<flexVars, visionVars, canvas, socketRef, matchResult,
                 isRunning, mounted, flexNet, visionNet, reconnectAttempts,
                 visionRes, lastFrame, camera>>

CallStopFlexPolling ==
  /\ mounted
  /\ Record("stopFlexPolling")
  /\ stopFlexPolling
  /\ UNCHANGED <<flexVars, visionVars, canvas, socketRef, matchResult,
                 isRunning, mounted, flexNet, visionNet, reconnectAttempts,
                 visionRes, lastFrame, camera>>

CallConnectMediapipe ==
  /\ mounted
  /\ Record("connectMediapipe")
  /\ connectMediapipe
  /\ UNCHANGED <<flexVars, visionVars, canvas, flexIntervalRef, matchResult,
                 isRunning, mounted, flexNet, pendingImages, staleImages,
                 flexRes, lastFrame, camera>>

CallDisconnectMediapipe ==
  /\ mounted
  /\ Record("disconnectMediapipe")
  /\ disconnectMediapipe
  /\ Render(disconnected(ui))
  /\ UNCHANGED <<canvas, flexIntervalRef, mounted, flexNet, pendingImages,
                 staleImages, flexRes, lastFrame, camera>>

CallStartAll ==
  /\ mounted
  /\ Record("startAll")
  /\ startFlexPolling
  /\ connectMediapipe
  /\ Render([ui EXCEPT !.isRunning = TRUE])
  /\ UNCHANGED <<canvas, mounted, flexNet, pendingImages, staleImages,
                 lastFrame, camera>>

CallStopAll ==
  /\ mounted
  /\ Record("stopAll")
  /\ stopFlexPolling
  /\ disconnectMediapipe
  /\ Render([disconnected(ui) EXCEPT !.isRunning = FALSE])
  /\ UNCHANGED <<canvas, mounted, flexNet, pendingImages, staleImages,
                 lastFrame, camera>>

NextCalls ==
  \/ CallStartFlexPolling
  \/ CallStopFlexPolling
  \/ CallConnectMediapipe
  \/ CallDisconnectMediapipe
  \/ CallStartAll
  \/ CallStopAll
  \/ FlexTick
  \/ FlexResponse
  \/ SocketConnect
  \/ SocketDisconnect
  \/ SocketConnectError
  \/ Unmount

SpecCalls == Init /\ [][NextCalls]_vars

\* Everything but the camera configuration
adapters == <<flexVars, flexIntervalRef, visionVars, canvas, socketRef,
              matchResult, isRunning, flexNet, visionNet, reconnectAttempts,
              flexRes, visionRes, lastCall, lastFrame>>

\* The values the rotation buttons pass to setRotationHandler
ButtonRotations == {0, 90, 180, 270}

\* Values a caller can pass to setRotationHandler
Rotations == ButtonRotations \cup {45}

\* A request of the given kind awaits its response at position i
Awaits(i, path, field) ==
  /\ i \in 1..Len(cameraRequests)
  /\ cameraRequests[i].path = path
  /\ field \in DOMAIN cameraRequests[i].body

\* setRotationHandler(rotation) up to its await: the POST /set_rotation goes
\* out with the rotation it was given
setRotationHandler(rotation) ==
  /\ Len(cameraRequests) < MaxRequests
  /\ cameraRequests' =
       Append(cameraRequests,
              Request("/set_rotation", [rotation |-> Num(rotation)]))
  /\ UNCHANGED cameraRotation

\* One of the four rotation buttons is clicked
RotationButton ==
  /\ mounted
  /\ showConfig
  /\ \E deg \in ButtonRotations : setRotationHandler(deg)
  /\ UNCHANGED <<adapters, mounted, cameraUrl, cameraStatus, cameraLoading,
                 showConfig, flipHorizontal, flipVertical, lastAlert,
                 cameraResponse, flipLog>>

\* setRotationHandler called with any value
CallSetRotationHandler ==
  /\ mounted
  /\ \E deg \in Rotations : setRotationHandler(deg)
  /\ UNCHANGED <<adapters, mounted, cameraUrl, cameraStatus, cameraLoading,
                 showConfig, flipHorizontal, flipVertical, lastAlert,
                 cameraResponse, flipLog>>

\* What the backend answers to POST /set_rotation: nothing (the fetch
\* rejects), a body that is not JSON, an error status, or success with the
\* rotation now in force, which may be missing from the body
RotationResponses(request) ==
  {Rejected, Response(TRUE, Malformed),
   Response(FALSE, [status |-> Str(<<"error">>), rotation |-> Undefined]),
   Response(TRUE, [status |-> Str(<<"error">>), rotation |-> Undefined]),
   Response(TRUE, [status |-> Str(<<"success">>), rotation |-> Undefined]),
   Response(TRUE, [status |-> Str(<<"success">>),
                   rotation |-> request.body.rotation])}

\* setRotationHandler after its await: one of its requests is answered
SetRotationSettles ==
  /\ \E i \in 1..Len(cameraRequests) :
       /\ Awaits(i, "/set_rotation", "rotation")
       /\ \E resp \in RotationResponses(cameraRequests[i]) :
            /\ cameraResponse' = resp
            /\ cameraRotation' =
                 IF /\ mounted
                    /\ resp.kind = "response"
                    /\ resp.body # Malformed
                    /\ resp.body.status = Str(<<"success">>)
                 THEN resp.body.rotation
                 ELSE cameraRotation
       /\ cameraRequests' = RemoveAt(cameraRequests, i)
  /\ UNCHANGED <<adapters, mounted, cameraUrl, cameraStatus, cameraLoading,
                 showConfig, flipHorizontal, flipVertical, lastAlert, flipLog>>

\* What the backend answers to GET /camera_status: nothing, a body that is
\* not JSON, or a report of the camera in use in which fields may be missing
StatusReports ==
  {[connected |-> Bool(TRUE), current_url |-> Str(<<"v">>),
    rotation |-> Num(90), flip_horizontal |-> Bool(FALSE),
    flip_vertical |-> Bool(TRUE)],
   [connected |-> Bool(FALSE), current_url |-> Str(<<>>),
    rotation |-> Num(0), flip_horizontal |-> Bool(FALSE),
    flip_vertical |-> Bool(FALSE)],
   [connected |-> Bool(TRUE), current_url |-> Str(<<"v">>),
    rotation |-> Undefined, flip_horizontal |-> Undefined,
    flip_vertical |-> Undefined],
   [connected |-> Undefined, current_url |-> Undefined,
    rotation |-> Undefined, flip_horizontal |-> Undefined,
    flip_vertical |-> Undefined]}

StatusResponses ==
  {Rejected, Response(TRUE, Malformed)}
    \cup {Response(TRUE, data) : data \in StatusReports}

\* The body of fetchCameraStatus after data = await res.json()
ApplyCameraStatus(data) ==
  /\ cameraStatus' = [connected |-> Or(data.connected, Bool(FALSE)),
                      url |-> Or(data.current_url, Str(<<>>))]
  /\ cameraUrl' = IF Truthy(data.current_url) THEN data.current_url
                  ELSE cameraUrl
  /\ cameraRotation' = IF data.rotation # Undefined THEN data.rotation
                       ELSE cameraRotation
  /\ flipHorizontal' = IF data.flip_horizontal # Undefined
                       THEN data.flip_horizontal
                       ELSE flipHorizontal
  /\ flipVertical' = IF data.flip_vertical # Undefined
                     THEN data.flip_vertical
                     ELSE flipVertical

\* fetchCameraStatus after its await: the request of the mount effect is
\* answered
FetchCameraStatusSettles ==
  /\ \E i \in 1..Len(cameraRequests) :
       /\ cameraRequests[i] = CameraStatusRequest
       /\ \E resp \in StatusResponses :
            /\ cameraResponse' = resp
            /\ IF mounted /\ resp.kind = "response" /\ resp.body # Malformed
               THEN ApplyCameraStatus(resp.body)
               ELSE UNCHANGED <<cameraStatus, cameraUrl, cameraRotation,
                                flipHorizontal, flipVertical>>
       /\ cameraRequests' = RemoveAt(cameraRequests, i)
  /\ UNCHANGED <<adapters, mounted, cameraLoading, showConfig, lastAlert, flipLog>>

\* Texts the operator types in the URL field
TypedUrls == {<<>>, <<" ">>, <<"u">>, <<" ", "u", " ">>}

\* onChange of the URL field
TypeUrl ==
  /\ mounted
  /\ showConfig
  /\ \E chars \in TypedUrls : cameraUrl' = Str(chars)
  /\ cameraUrl' # cameraUrl
  /\ UNCHANGED <<adapters, mounted, cameraRotation, cameraRequests,
                 cameraStatus, cameraLoading, showConfig, flipHorizontal,
                 flipVertical, lastAlert,
                 cameraResponse, flipLog>>

\* The Show Config / Hide Config button
ShowConfigButton ==
  /\ mounted
  /\ showConfig' = ~showConfig
  /\ UNCHANGED <<adapters, mounted, cameraRotation, cameraRequests,
                 cameraUrl, cameraStatus, cameraLoading, flipHorizontal,
                 flipVertical, lastAlert,
                 cameraResponse, flipLog>>

\* Variant of setCameraUrlHandler that tests the URL without trimming it
setCameraUrlHandlerUntrimmed ==
  IF ~Truthy(cameraUrl)
  THEN /\ lastAlert' = Str(<<"Please enter a camera URL">>)
       /\ UNCHANGED <<cameraRequests, cameraLoading>>
  ELSE /\ Len(cameraRequests) < MaxRequests
       /\ cameraLoading' = TRUE
       /\ cameraRequests' =
            Append(cameraRequests,
                   Request("/set_camera", [url |-> Str(trim(cameraUrl.s))]))
       /\ UNCHANGED lastAlert

\* setCameraUrlHandler up to its await
setCameraUrlHandler ==
  IF ~Truthy(Str(trim(cameraUrl.s)))
  THEN /\ lastAlert' = Str(<<"Please enter a camera URL">>)
       /\ UNCHANGED <<cameraRequests, cameraLoading>>
  ELSE /\ Len(cameraRequests) < MaxRequests
       /\ cameraLoading' = TRUE
       /\ cameraRequests' =
            Append(cameraRequests,
                   Request("/set_camera", [url |-> Str(trim(cameraUrl.s))]))
       /\ UNCHANGED lastAlert

\* The Set Camera button, disabled while cameraLoading
SetCameraButton ==
  /\ mounted
  /\ showConfig
  /\ ~cameraLoading
  /\ setCameraUrlHandler
  /\ UNCHANGED <<adapters, mounted, cameraRotation, cameraUrl, cameraStatus,
                 showConfig, flipHorizontal, flipVertical,
                 cameraResponse, flipLog>>

\* What the backend answers to POST /set_camera
SetCameraResponses ==
  {Rejected, Response(TRUE, Malformed),
   Response(TRUE, [status |-> Str(<<"success">>), error |-> Undefined]),
   Response(TRUE, [status |-> Str(<<"error">>), error |-> Undefined]),
   Response(FALSE, [status |-> Str(<<"error">>),
                    error |-> Str(<<"Cannot open stream">>)])}

\* err.message of the error thrown by fetch or by res.json()
ErrorMessage(resp) ==
  IF resp.kind = "reject" THEN <<"Failed to fetch">>
  ELSE <<"Unexpected token">>

\* Variant of SetCameraOutcome that takes every parsed answer as a success
SetCameraOutcomeAnyStatus(request, resp) ==
  IF resp.kind = "response" /\ resp.body # Malformed
  THEN /\ cameraStatus' = IF mounted
                          THEN [connected |-> Bool(TRUE),
                                url |-> request.body.url]
                          ELSE cameraStatus
       /\ showConfig' = IF mounted THEN FALSE ELSE showConfig
       /\ lastAlert' = Str(<<"Camera connected successfully!">>)
  ELSE /\ lastAlert' = Str(<<"Error: ">> \o ErrorMessage(resp))
       /\ UNCHANGED <<cameraStatus, showConfig>>

\* The try/catch of setCameraUrlHandler after its await; the messages are
\* given without their leading symbol
SetCameraOutcome(request, resp) ==
  IF resp.kind = "response" /\ resp.body # Malformed
  THEN IF resp.body.status = Str(<<"success">>)
       THEN /\ cameraStatus' = IF mounted
                               THEN [connected |-> Bool(TRUE),
                                     url |-> request.body.url]
                               ELSE cameraStatus
            /\ showConfig' = IF mounted THEN FALSE ELSE showConfig
            /\ lastAlert' = Str(<<"Camera connected successfully!">>)
       ELSE /\ lastAlert' =
                 Str(<<"Failed: ">>
                     \o Or(resp.body.error, Str(<<"Unknown error">>)).s)
            /\ UNCHANGED <<cameraStatus, showConfig>>
  ELSE /\ lastAlert' = Str(<<"Error: ">> \o ErrorMessage(resp))
       /\ UNCHANGED <<cameraStatus, showConfig>>

\* setCameraUrlHandler after its await: its request is answered
SetCameraSettles ==
  /\ \E i \in 1..Len(cameraRequests) :
       /\ cameraRequests[i].path = "/set_camera"
       /\ \E resp \in SetCameraResponses :
            /\ cameraResponse' = resp
            /\ SetCameraOutcome(cameraRequests[i], resp)
       /\ cameraRequests' = RemoveAt(cameraRequests, i)
  /\ cameraLoading' = IF mounted THEN FALSE ELSE cameraLoading
  /\ UNCHANGED <<adapters, mounted, cameraRotation, cameraUrl,
                 flipHorizontal, flipVertical, flipLog>>

\* stopCamera up to its await
stopCamera ==
  /\ Len(cameraRequests) < MaxRequests
  /\ cameraRequests' = Append(cameraRequests, StopCameraRequest)

\* The Stop Camera button, shown while the camera is connected
StopCameraButton ==
  /\ mounted
  /\ showConfig
  /\ Truthy(cameraStatus.connected)
  /\ stopCamera
  /\ UNCHANGED <<adapters, mounted, cameraRotation, cameraUrl, cameraStatus,
                 cameraLoading, showConfig, flipHorizontal, flipVertical,
                 lastAlert,
                 cameraResponse, flipLog>>

\* What comes back from POST /stop_camera: nothing, or an answer of any
\* status, whose body is not read
StopCameraResponses ==
  {Rejected, Response(TRUE, Malformed), Response(FALSE, Malformed)}

\* The try/catch of stopCamera after its await
StopCameraOutcome(resp) ==
  cameraStatus' = IF mounted /\ resp.kind = "response"
                  THEN [connected |-> Bool(FALSE), url |-> Str(<<>>)]
                  ELSE cameraStatus

\* stopCamera after its await: its request is answered
StopCameraSettles ==
  /\ \E i \in 1..Len(cameraRequests) :
       /\ cameraRequests[i] = StopCameraRequest
       /\ \E resp \in StopCameraResponses :
            /\ cameraResponse' = resp
            /\ StopCameraOutcome(resp)
       /\ cameraRequests' = RemoveAt(cameraRequests, i)
  /\ UNCHANGED <<adapters, mounted, cameraRotation, cameraUrl, cameraLoading,
                 showConfig, flipHorizontal, flipVertical, lastAlert, flipLog>>

\* !x
Not(v) == Bool(~Truthy(v))

\* setFlipHandler(flipH, flipV) up to its await
setFlipHandler(flipH, flipV) ==
  /\ Len(cameraRequests) < MaxRequests
  /\ cameraRequests' =
       Append(cameraRequests,
              Request("/set_rotation",
                      [flip_horizontal |-> flipH, flip_vertical |-> flipV]))

\* flipLog after a click on the flip button of the given axis
Clicked(axis, flipH, flipV) ==
  /\ Len(flipLog.clicks) < MaxFlips
  /\ flipLog' =
       [start |-> IF flipLog.clicks = <<>>
                  THEN <<flipHorizontal, flipVertical>>
                  ELSE flipLog.start,
        settled |-> IF flipLog.clicks = <<>>
                    THEN \A i \in 1..Len(cameraRequests) :
                           cameraRequests[i] # CameraStatusRequest
                    ELSE flipLog.settled,
        clicks |-> Append(flipLog.clicks, axis),
        last |-> [flip_horizontal |-> flipH, flip_vertical |-> flipV],
        applied |-> flipLog.applied]

\* The Horizontal flip button
FlipHorizontalButton ==
  /\ mounted
  /\ showConfig
  /\ setFlipHandler(Not(flipHorizontal), flipVertical)
  /\ Clicked("horizontal", Not(flipHorizontal), flipVertical)
  /\ UNCHANGED <<adapters, mounted, cameraRotation, cameraUrl, cameraStatus,
                 cameraLoading, showConfig, flipHorizontal, flipVertical,
                 lastAlert,
                 cameraResponse>>

\* The Vertical flip button
FlipVerticalButton ==
  /\ mounted
  /\ showConfig
  /\ setFlipHandler(flipHorizontal, Not(flipVertical))
  /\ Clicked("vertical", flipHorizontal, Not(flipVertical))
  /\ UNCHANGED <<adapters, mounted, cameraRotation, cameraUrl, cameraStatus,
                 cameraLoading, showConfig, flipHorizontal, flipVertical,
                 lastAlert,
                 cameraResponse>>

\* What the backend answers to POST /set_rotation with the two flips:
\* nothing, a body that is not JSON, an error status, or success with the
\* flips now in force, which are those of the request
FlipResponses(request) ==
  {Rejected, Response(TRUE, Malformed),
   Response(TRUE, [status |-> Str(<<"error">>),
                   flip_horizontal |-> Undefined,
                   flip_vertical |-> Undefined]),
   Response(TRUE, [status |-> Str(<<"success">>),
                   flip_horizontal |-> request.body.flip_horizontal,
                   flip_vertical |-> request.body.flip_vertical])}

\* setFlipHandler after its await: one of its requests is answered
SetFlipSettles ==
  /\ \E i \in 1..Len(cameraRequests) :
       /\ Awaits(i, "/set_rotation", "flip_horizontal")
       /\ \E resp \in FlipResponses(cameraRequests[i]) :
            /\ cameraResponse' = resp
            /\ IF /\ mounted
                  /\ resp.kind = "response"
                  /\ resp.body # Malformed
                  /\ resp.body.status = Str(<<"success">>)
               THEN /\ flipHorizontal' = resp.body.flip_horizontal
                    /\ flipVertical' = resp.body.flip_vertical
                    /\ flipLog' =
                         [flipLog EXCEPT !.applied = flipLog.applied + 1]
               ELSE UNCHANGED <<flipHorizontal, flipVertical, flipLog>>
       /\ cameraRequests' = RemoveAt(cameraRequests, i)
  /\ UNCHANGED <<adapters, mounted, cameraRotation, cameraUrl, cameraStatus,
                 cameraLoading, showConfig, lastAlert>>

\* The rotation setting of the camera configuration panel
NextCamera ==
  \/ RotationButton
  \/ CallSetRotationHandler
  \/ SetRotationSettles
  \/ FetchCameraStatusSettles
  \/ Unmount

SpecCamera == Init /\ [][NextCamera]_vars

\* The camera URL of the camera configuration panel
NextCameraUrl ==
  \/ TypeUrl
  \/ ShowConfigButton
  \/ SetCameraButton
  \/ SetCameraSettles
  \/ StopCameraButton
  \/ StopCameraSettles
  \/ FetchCameraStatusSettles
  \/ Unmount

SpecCameraUrl == Init /\ [][NextCameraUrl]_vars

\* The flips of the camera configuration panel
NextFlip ==
  \/ FlipHorizontalButton
  \/ FlipVerticalButton
  \/ SetFlipSettles
  \/ ShowConfigButton
  \/ FetchCameraStatusSettles
  \/ Unmount

SpecFlip == Init /\ [][NextFlip]_vars

----------------------------------------------------------------------------
(* Properties of the combined result *)

\* A prediction without a gesture: no prediction, or no or an empty gesture
NoGesture(prediction) ==
  \/ prediction = Null
  \/ prediction.gesture = Undefined
  \/ prediction.gesture = Str(<<>>)

\* The body of the poll that produced flexPrediction and the label of the
\* box that produced mediapipePrediction, as the backends sent them
FlexPayloadGesture ==
  IF mounted /\ flexResponse.kind = "response" /\ ~FlexThrows(flexResponse)
  THEN flexResponse.body.gesture ELSE Undefined

VisionPayloadLabel ==
  IF mounted /\ canvas.text # Null THEN canvas.text.label ELSE Undefined

SameIgnoringCase(a, b) ==
  /\ Len(a) = Len(b)
  /\ \A i \in 1..Len(a) : UpperOf(a[i]) = UpperOf(b[i])

\* C1: the result is "waiting" exactly when the Flex prediction or the
\* MediaPipe prediction has no gesture, whatever the other prediction is.
C1_WaitingIffNoGesture ==
  (matchResult.status = "waiting")
    <=> (NoGesture(flexPrediction) \/ NoGesture(mediapipePrediction))

C1_Witness ==
  /\ flexPrediction # Null
  /\ flexPrediction.gesture = Str(<<>>)
  /\ ~NoGesture(mediapipePrediction)
  /\ matchResult.status = "waiting"

\* C2: two predictions with equal gestures give "match" with that gesture in
\* the message, and so do payload labels that differ only in letter case.
C2_EqualGesturesMatch ==
  /\ (/\ ~NoGesture(flexPrediction)
      /\ ~NoGesture(mediapipePrediction)
      /\ flexPrediction.gesture = mediapipePrediction.gesture)
     => /\ matchResult.status = "match"
        /\ matchResult.message
             = <<"MATCH: ">> \o toUpperCase(flexPrediction.gesture.s)
  /\ (/\ FlexPayloadGesture.t = "string"
      /\ VisionPayloadLabel.t = "string"
      /\ FlexPayloadGesture.s # <<>>
      /\ SameIgnoringCase(FlexPayloadGesture.s, VisionPayloadLabel.s))
     => /\ matchResult.status = "match"
        /\ flexPrediction.gesture = Str(toLowerCase(FlexPayloadGesture.s))
        /\ mediapipePrediction.gesture = flexPrediction.gesture

C2_Witness ==
  /\ FlexPayloadGesture = Str(<<"F">>)
  /\ VisionPayloadLabel = Str(<<"f">>)
  /\ matchResult.status = "match"

\* C3: two predictions with different gestures give "mismatch", and the
\* message names the Flex gesture first and the MediaPipe gesture second,
\* both as stored.
C3_DifferentGesturesMismatch ==
  (/\ ~NoGesture(flexPrediction)
   /\ ~NoGesture(mediapipePrediction)
   /\ flexPrediction.gesture # mediapipePrediction.gesture)
  => /\ matchResult.status = "mismatch"
     /\ matchResult.message
          = <<"MISMATCH - Flex: ">> \o flexPrediction.gesture.s
            \o <<", MediaPipe: ">> \o mediapipePrediction.gesture.s

C3_Witness ==
  /\ flexPrediction # Null
  /\ mediapipePrediction # Null
  /\ flexPrediction.gesture = Str(<<"f">>)
  /\ mediapipePrediction.gesture = Str(<<"p">>)
  /\ matchResult.status = "mismatch"

AfterPoll(st, resp) == Commit(st, fetchFlexPrediction(st, resp))

AfterFrame(st, frame) == Commit(st, onload(st, frame))

Outcome(st) ==
  <<st.flexPrediction, st.mediapipePrediction, st.matchResult>>

\* C5: from any state, one settled poll and one decoded frame leave the same
\* two predictions and the same result in either order.
C5_OrderIndependent ==
  \A resp \in CoreFlexResponses, frame \in CoreFrames :
    Outcome(AfterFrame(AfterPoll(ui, resp), frame))
      = Outcome(AfterPoll(AfterFrame(ui, frame), resp))

\* Both predictions are set and some pair of updates changes both of them
\* and the result
C5_Witness ==
  /\ mounted
  /\ matchResult.status = "match"
  /\ \E resp \in CoreFlexResponses, frame \in CoreFrames :
       LET after == AfterFrame(AfterPoll(ui, resp), frame)
       IN /\ after.flexPrediction # flexPrediction
          /\ after.mediapipePrediction # mediapipePrediction
          /\ after.matchResult.status = "match"

----------------------------------------------------------------------------
(* Properties of the adapters *)

\* A step in which the fetch of a poll settles
PollSettles == flexInFlight' < flexInFlight

\* A poll that failed: the request was rejected, the response has an error
\* status, or the body is not a JSON body with a string gesture
FailedPoll(resp) ==
  \/ resp.kind = "reject"
  \/ /\ resp.kind = "response"
     /\ \/ ~resp.ok
        \/ resp.body = Malformed
        \/ resp.body.gesture.t \notin {"string", "undefined"}

SuccessfulPoll(resp) == resp.kind = "response" /\ ~FailedPoll(resp)

\* A field of the body as the prediction carries it: a missing one is null
PassedThrough(v) == IF v = Undefined THEN Null ELSE v

\* C6: the decode of a frame that arrived before the frame drawn last
\* completes without changing the canvas or the MediaPipe prediction.
C6_OvertakenDecodeDiscarded ==
  [][staleImages' < staleImages
       => /\ canvas' = canvas
          /\ mediapipePrediction' = mediapipePrediction]_vars

\* C7: a poll that settles after stopAll has cleared the interval changes
\* none of flexPrediction, flexValues, flexConnected, flexError, matchResult.
C7_LateResponseDiscarded ==
  [][(mounted /\ ~isRunning /\ ~Truthy(flexIntervalRef) /\ PollSettles)
       => UNCHANGED <<flexPrediction, flexValues, flexConnected, flexError,
                      matchResult>>]_vars

\* C8: while no socket is held after disconnectMediapipe, mediapipeConnected,
\* mediapipeError, mediapipePrediction and the canvas do not change.
C8_NoChangeAfterDisconnect ==
  [][(mounted /\ ~Truthy(socketRef) /\ ~Truthy(socketRef'))
       => UNCHANGED <<mediapipeConnected, mediapipeError, mediapipePrediction,
                      canvas>>]_vars

\* C9: a failed poll of any kind clears flexConnected, sets flexError to the
\* fixed message and leaves flexPrediction as it was.
C9_FailedPollKeepsPrediction ==
  [][(mounted /\ PollSettles /\ FailedPoll(flexResponse'))
       => /\ flexConnected' = FALSE
          /\ flexError' = FlexErrorMessage
          /\ flexPrediction' = flexPrediction]_vars

\* C10: a successful poll stores a prediction built from its body alone, the
\* gesture in lower case and the other fields as sent, sets flexConnected
\* and clears flexError.
C10_SuccessfulPollReplaces ==
  [][(mounted /\ PollSettles /\ SuccessfulPoll(flexResponse'))
       => LET data == flexResponse'.body
          IN /\ flexPrediction' =
                  [gesture |-> IF data.gesture.t = "string"
                               THEN Str(toLowerCase(data.gesture.s))
                               ELSE Undefined,
                   confidence |-> PassedThrough(data.confidence),
                   classId |-> data.predicted_class]
             /\ flexValues' = PassedThrough(data.latest_values)
             /\ flexConnected' = TRUE
             /\ flexError' = Null]_vars

----------------------------------------------------------------------------
(* Properties of starting and stopping *)

\* A step that is a call of function fn
Calls(fn) == lastCall' # lastCall /\ lastCall'.fn = fn

\* C11: at most one interval is armed at any time; startFlexPolling called
\* while an interval is armed arms no other one, and stopFlexPolling called
\* while none is armed changes nothing.
C11_FlexStartStopIdempotent ==
  /\ [](timers <= 1)
  /\ [][(Calls("startFlexPolling") /\ timers > 0)
          => UNCHANGED <<flexIntervalRef, timers, timerBalance>>]_vars
  /\ [][(Calls("stopFlexPolling") /\ timers = 0)
          => UNCHANGED <<flexIntervalRef, timers, timerBalance, flexVars,
                         flexNet, isRunning, matchResult>>]_vars

\* startFlexPolling has been called twice in a row while an interval was
\* armed, and one interval is armed
C11_Witness ==
  /\ lastCall.fn = "startFlexPolling"
  /\ lastCall.prev = "startFlexPolling"
  /\ lastCall.armed
  /\ timers = 1

\* C12: no step of a poll, its issue or its settling, disarms the interval,
\* and whenever the interval is armed after a failed poll with no request
\* under way, a further request is issued unless the polling is stopped.
C12_FailuresNeverStopPolling ==
  /\ [][(PollSettles \/ flexInFlight' > flexInFlight)
          => UNCHANGED <<flexIntervalRef, timers>>]_vars
  /\ (timers > 0 /\ flexError = FlexErrorMessage /\ flexInFlight = 0)
       ~> (flexInFlight > 0 \/ timers = 0)

\* The last poll was rejected and then a further request went out
C12_Witness ==
  /\ timers = 1
  /\ flexResponse = Rejected
  /\ flexError = FlexErrorMessage
  /\ ~flexConnected
  /\ flexInFlight = MaxInFlight

\* C13: at most one connection is open at any time, with one set of
\* handlers; connectMediapipe called while socketRef holds a socket opens no
\* connection and registers no handlers.
C13_OneSocket ==
  /\ [](sockets <= 1 /\ listeners <= 1)
  /\ [][(Calls("connectMediapipe") /\ Truthy(socketRef))
          => UNCHANGED <<socketRef, socketState, reconnectAttempts, sockets,
                         socketBalance, listeners>>]_vars

\* connectMediapipe has been called while a connected socket was held
C13_Witness ==
  /\ lastCall.fn = "connectMediapipe"
  /\ lastCall.open
  /\ socketState = "connected"
  /\ sockets = 1
  /\ listeners = 1

\* C14: the socket makes at most reconnectionAttempts reconnection attempts,
\* makes none by itself once it has given up, and a call of connectMediapipe
\* or startAll after it has given up starts a connection attempt.
C14_RestartAfterGivingUp ==
  /\ [](reconnectAttempts <= reconnectionAttempts)
  /\ [][(socketState = "failed" /\ lastCall' = lastCall)
          => socketState' \in {"failed", "closed"}]_vars
  /\ [][(socketState = "failed"
         /\ (Calls("connectMediapipe") \/ Calls("startAll")))
          => socketState' = "connecting"]_vars

----------------------------------------------------------------------------
(* Properties of the MediaPipe adapter *)

\* Steps in which the socket fires connect, disconnect and connect_error
ConnectEvent == socketState = "connecting" /\ socketState' = "connected"

\* (the disconnect fired by the cleanup of the unmounting component writes no
\* state: there is none left)
DisconnectEvent ==
  /\ mounted'
  /\ socketState = "connected"
  /\ socketState' # "connected"

ConnectErrorEvent ==
  /\ socketState = "connecting"
  /\ \/ reconnectAttempts' > reconnectAttempts
     \/ socketState' = "failed"

\* C15: connect sets mediapipeConnected and clears mediapipeError; disconnect
\* clears mediapipeConnected and keeps mediapipePrediction and
\* mediapipeError; connect_error clears mediapipeConnected, sets
\* mediapipeError to the fixed message and keeps mediapipePrediction.
C15_ConnectivityEvents ==
  /\ [][ConnectEvent
          => /\ mediapipeConnected' = TRUE
             /\ mediapipeError' = Null]_vars
  /\ [][DisconnectEvent
          => /\ mediapipeConnected' = FALSE
             /\ UNCHANGED <<mediapipePrediction, mediapipeError>>]_vars
  /\ [][ConnectErrorEvent
          => /\ mediapipeConnected' = FALSE
             /\ mediapipeError' = MediapipeErrorMessage
             /\ UNCHANGED mediapipePrediction]_vars

\* A prediction has survived the loss of the connection and a failed
\* reconnection attempt
C15_Witness ==
  /\ mediapipePrediction # Null
  /\ ~mediapipeConnected
  /\ mediapipeError = MediapipeErrorMessage
  /\ socketState = "connecting"
  /\ reconnectAttempts = 2

\* The detection boxes a frame carries
BoxesOf(frame) ==
  IF frame.predictions.t = "array" THEN frame.predictions.a ELSE <<>>

\* C16: after the decode of a frame whose prediction list is empty or
\* missing, mediapipePrediction is null, the canvas shows the image without
\* rectangle and label, and the result is "waiting"; and this is what the
\* decode of such a frame gives from every state, whatever the prediction
\* and the result were.
C16_EmptyFrameClears ==
  /\ (mounted /\ lastFrame # NoFrame /\ BoxesOf(lastFrame) = <<>>)
       => /\ mediapipePrediction = Null
          /\ canvas.image = lastFrame.image.src
          /\ canvas.rect = Null
          /\ canvas.text = Null
          /\ matchResult = WaitingResult
  /\ \A frame \in EmptyFrames :
       /\ AfterFrame(ui, frame).mediapipePrediction = Null
       /\ AfterFrame(ui, frame).matchResult = WaitingResult
       /\ DrawFrame(frame).image = frame.image.src
       /\ DrawFrame(frame).rect = Null
       /\ DrawFrame(frame).text = Null

\* A frame with an empty prediction list was decoded last, while the Flex
\* backend reports a gesture
C16_Witness ==
  /\ mounted
  /\ lastFrame # NoFrame
  /\ lastFrame.predictions = Arr(<<>>)
  /\ canvas.image = "a"
  /\ flexPrediction # Null
  /\ flexPrediction.gesture = Str(<<"f">>)
  /\ mediapipePrediction = Null
  /\ matchResult = WaitingResult

\* The frame with its first box alone
FirstBoxOnly(frame) ==
  [frame EXCEPT !.predictions = Arr(<<BoxesOf(frame)[1]>>)]

\* A length of the image in pixels of the canvas
Scaled(v, img) == Ratio(v * MAX_WIDTH, img.width)

\* Flex predictions against which the result is computed
SomeFlexPredictions ==
  {Null}
  \cup {[gesture |-> Str(<<g>>), confidence |-> Num(92), classId |-> Num(1)] :
          g \in {"f", "p"}}

\* C17: after the decode of a frame with boxes, mediapipePrediction carries
\* the lower-cased label and the confidence of the first box, and the canvas
\* shows one rectangle and one label, those of the first box; and the decode
\* of a frame gives the prediction, the result and the canvas that the
\* decode of the frame with its first box alone gives.
C17_FirstBoxOnly ==
  /\ (mounted /\ Len(BoxesOf(lastFrame)) > 0)
       => LET box == BoxesOf(lastFrame)[1]
              img == lastFrame.image
          IN /\ mediapipePrediction =
                  [gesture |-> IF box.label.t = "string"
                               THEN Str(toLowerCase(box.label.s))
                               ELSE Undefined,
                   confidence |-> box.confidence]
             /\ canvas.image = img.src
             /\ canvas.rect =
                  [x |-> Scaled(box.bbox[1], img),
                   y |-> Scaled(box.bbox[2], img),
                   w |-> Scaled(box.bbox[3] - box.bbox[1], img),
                   h |-> Scaled(box.bbox[4] - box.bbox[2], img)]
             /\ canvas.text.label = box.label
             /\ canvas.text.confidence = box.confidence
  /\ \A frame \in BoxFrames :
       Len(BoxesOf(frame)) > 0
         => /\ DrawFrame(frame) = DrawFrame(FirstBoxOnly(frame))
            /\ \A fp \in SomeFlexPredictions :
                 LET st == [ui EXCEPT !.flexPrediction = fp]
                 IN AfterFrame(st, frame) = AfterFrame(st, FirstBoxOnly(frame))

\* A frame with the boxes f and P, in this order, was decoded last
C17_Witness ==
  /\ mounted
  /\ Len(BoxesOf(lastFrame)) = 2
  /\ BoxesOf(lastFrame)[1].label = Str(<<"f">>)
  /\ BoxesOf(lastFrame)[2].label = Str(<<"P">>)
  /\ mediapipePrediction # Null
  /\ mediapipePrediction.gesture = Str(<<"f">>)
  /\ canvas.text # Null
  /\ canvas.text.label = Str(<<"f">>)

----------------------------------------------------------------------------
(* Properties of the controller *)

\* Every variable but the record of the calls
program == <<flexConnected, flexPrediction, flexValues, flexError,
             flexIntervalRef, mediapipeConnected, mediapipePrediction,
             mediapipeError, canvas, socketRef, matchResult, isRunning,
             mounted, flexInFlight, flexResponse, staleRequests,
             socketState, pendingImages,
             staleImages, reconnectAttempts, timers, timerBalance, sockets,
             socketBalance, listeners, lastFrame>>

\* C18: stopAll can be called in every state of the mounted component, and
\* a stopAll that follows a stopAll, or that comes before any other call,
\* clears no interval, disconnects no socket and changes nothing.
C18_StopAllIdempotent ==
  /\ [](mounted => ENABLED CallStopAll)
  /\ [][(Calls("stopAll") /\ lastCall.fn \in {"stopAll", "none"})
          => UNCHANGED program]_vars

\* stopAll has been called twice in a row after a run that left a prediction
C18_Witness ==
  /\ lastCall.fn = "stopAll"
  /\ lastCall.prev = "stopAll"
  /\ ~lastCall.armed
  /\ ~lastCall.open
  /\ flexPrediction # Null
  /\ ~isRunning
  /\ timers = 0
  /\ sockets = 0

\* C19: once the component is unmounted no interval is armed and no
\* connection is open, and at every moment of a session each setInterval
\* not yet cleared is matched by one armed interval and each io() not yet
\* disconnected by one open connection: no resource is released twice,
\* neither by stopAll nor by the cleanup.
C19_UnmountReleasesOnce ==
  /\ timerBalance = timers
  /\ socketBalance = sockets
  /\ ~mounted
       => /\ timers = 0
          /\ sockets = 0
          /\ listeners = 0
          /\ ~Truthy(flexIntervalRef)
          /\ ~Truthy(socketRef)
          /\ socketState = "closed"

\* The component was unmounted after a run that stopAll had ended
C19_Witness ==
  /\ ~mounted
  /\ ~isRunning
  /\ flexPrediction # Null
  /\ timers = 0
  /\ timerBalance = 0
  /\ sockets = 0
  /\ socketBalance = 0

----------------------------------------------------------------------------
(* Properties of the camera configuration *)

\* C20: no request to /set_rotation carries a rotation other than 0, 90, 180
\* or 270, and cameraRotation never takes such a value: setRotationHandler
\* called with another value sends nothing and leaves cameraRotation alone.
C20_InvalidRotationRejected ==
  /\ \A i \in 1..Len(cameraRequests) :
       cameraRequests[i].path = "/set_rotation"
         => cameraRequests[i].body.rotation \in {Num(d) : d \in ButtonRotations}
  /\ cameraRotation \in {Num(d) : d \in ButtonRotations} \cup {Undefined}

\* How many of the requests awaiting their response are the given one
Pending(request) ==
  Cardinality({i \in 1..Len(cameraRequests) : cameraRequests[i] = request})

\* The POST /stop_camera of stopCamera has come to its end, with an answer
\* or with a network error
StopCameraAnswered ==
  Pending(StopCameraRequest)' < Pending(StopCameraRequest)

NoCamera == [connected |-> Bool(FALSE), url |-> Str(<<>>)]

\* C21: whatever comes back from POST /stop_camera, a network error
\* included, the mounted component ends the stop with cameraStatus equal to
\* {connected: false, url: ""}.
C21_StopClearsOnEveryOutcome ==
  [][StopCameraAnswered /\ mounted => cameraStatus' = NoCamera]_vars

\* The GET /camera_status of fetchCameraStatus has come to its end
StatusAnswered ==
  Pending(CameraStatusRequest)' < Pending(CameraStatusRequest)

cameraCache ==
  <<cameraStatus, cameraUrl, cameraRotation, flipHorizontal, flipVertical>>

\* The cached field holds what the backend reported; for a field missing
\* from the report, no value or the value the component starts with
Replaced(cached, reported, initial) ==
  IF reported # Undefined THEN cached = reported
  ELSE cached \in {Undefined, initial}

\* C22: when the mounted component applies the answer to GET /camera_status,
\* the cached connected flag, URL, rotation and flips are those of that
\* answer: a field the answer leaves out, or an empty URL, does not keep the
\* value cached before.
C22_RefreshReplacesCache ==
  [][StatusAnswered /\ mounted /\ cameraCache' # cameraCache
       => \E data \in StatusReports :
            /\ Replaced(cameraStatus'.connected, data.connected, Bool(FALSE))
            /\ Replaced(cameraStatus'.url, data.current_url, Str(<<>>))
            /\ Replaced(cameraRotation', data.rotation, Num(0))
            /\ Replaced(flipHorizontal', data.flip_horizontal, Bool(TRUE))
            /\ Replaced(flipVertical', data.flip_vertical, Bool(FALSE))]_vars

\* The requests to the given path that await their response
PendingAt(path) ==
  {i \in 1..Len(cameraRequests) : cameraRequests[i].path = path}

\* The POST /set_camera of setCameraUrlHandler has come to its end
SetCameraAnswered ==
  Cardinality(PendingAt("/set_camera")')
    < Cardinality(PendingAt("/set_camera"))

\* The backend answered with a body whose status is "success"
ReportsSuccess(resp) ==
  /\ resp.kind = "response"
  /\ resp.body # Malformed
  /\ resp.body.status = Str(<<"success">>)

\* The reason of a failure: the error the backend names, else the message
\* of the error thrown, else "Unknown error"
FailureReason(resp) ==
  IF resp.kind = "response" /\ resp.body # Malformed
  THEN IF resp.body.error.t = "string" THEN resp.body.error.s
       ELSE <<"Unknown error">>
  ELSE ErrorMessage(resp)

\* The alert shown last ends with the given text
AlertEndsWith(alert, text) ==
  /\ alert.t = "string"
  /\ Len(alert.s) >= Len(text)
  /\ SubSeq(alert.s, Len(alert.s) - Len(text) + 1, Len(alert.s)) = text

\* C23: when the POST /set_camera of the mounted component is answered with
\* status "success", cameraStatus becomes {connected: true, url: the trimmed
\* URL that was sent} and the panel is hidden; when the backend reports a
\* failure or the request throws, cameraStatus and showConfig stay as they
\* were and an alert gives the reason.
C23_SetUrlOnlyOnSuccess ==
  [][SetCameraAnswered /\ mounted
       => \E i \in PendingAt("/set_camera") :
            LET url == cameraRequests[i].body.url
            IN IF ReportsSuccess(cameraResponse')
               THEN /\ cameraStatus' = [connected |-> Bool(TRUE), url |-> url]
                    /\ url.s = trim(url.s)
                    /\ ~showConfig'
               ELSE /\ UNCHANGED <<cameraStatus, showConfig>>
                    /\ AlertEndsWith(lastAlert',
                                     FailureReason(cameraResponse'))]_vars

\* The panel was open with no camera connected, and a failed POST
\* /set_camera has left it so, with its reason shown
C23_Witness ==
  /\ mounted
  /\ cameraResponse = Response(FALSE, [status |-> Str(<<"error">>),
                                       error |-> Str(<<"Cannot open stream">>)])
  /\ lastAlert = Str(<<"Failed: ", "Cannot open stream">>)
  /\ showConfig
  /\ ~Truthy(cameraStatus.connected)

PleaseEnter == Str(<<"Please enter a camera URL">>)

\* C24: while the URL field is empty or holds only white space, no POST
\* /set_camera goes out and cameraLoading is not set; the click that is
\* refused with "Please enter a camera URL" changes neither the requests,
\* nor the camera cache, nor showConfig, nor cameraLoading.
C24_EmptyUrlSendsNothing ==
  /\ [][trim(cameraUrl.s) = <<>>
          => /\ Cardinality(PendingAt("/set_camera")')
                  <= Cardinality(PendingAt("/set_camera"))
             /\ cameraLoading' => cameraLoading]_vars
  /\ [][lastAlert' = PleaseEnter /\ lastAlert # PleaseEnter
          => UNCHANGED <<cameraRequests, cameraCache, showConfig,
                         cameraLoading>>]_vars

\* Set Camera was clicked on a field holding one space
C24_Witness ==
  /\ lastAlert = PleaseEnter
  /\ cameraUrl = Str(<<" ">>)
  /\ ~cameraLoading
  /\ PendingAt("/set_camera") = {}

----------------------------------------------------------------------------
(* Properties of the frame renderer *)

\* The canvas shows the first box of the frame decoded last at the scale
\* MAX_WIDTH / img.width: the rectangle, and the label text 8 above its top
BoxDrawnToScale ==
  LET box == BoxesOf(lastFrame)[1]
      img == lastFrame.image
  IN /\ canvas.width = MAX_WIDTH
     /\ canvas.rect = [x |-> Scaled(box.bbox[1], img),
                       y |-> Scaled(box.bbox[2], img),
                       w |-> Scaled(box.bbox[3] - box.bbox[1], img),
                       h |-> Scaled(box.bbox[4] - box.bbox[2], img)]
     /\ canvas.text.x = canvas.rect.x
     /\ canvas.text.y.den = canvas.rect.y.den
     /\ canvas.text.y.num = canvas.rect.y.num - 8 * canvas.rect.y.den
     /\ canvas.text.str = TemplateText(box.label) \o <<" (">>
                            \o TemplateText(box.confidence) \o <<")">>

\* The box of the example on a 960-wide image is drawn as the rectangle
\* (5, 10, 50, 50) with the text "fist (0.92)"
ExampleDrawn ==
  (lastFrame.image.width = 960 /\ BoxesOf(lastFrame)[1] = FistBox)
    => /\ canvas.rect = [x |-> Ratio(5, 1), y |-> Ratio(10, 1),
                         w |-> Ratio(50, 1), h |-> Ratio(50, 1)]
       /\ canvas.text.str =
            <<"f", "i", "s", "t", " (", "0", ".", "9", "2", ")">>
       /\ canvas.text.y = Ratio(2, 1)

Decoded ==
  /\ Len(pendingImages') < Len(pendingImages)
  /\ \E i \in 1..Len(pendingImages) : lastFrame' = pendingImages[i]

\* C26: the canvas changes only when the image of a received frame has been
\* decoded, and once the component is unmounted (canvasRef.current is null)
\* neither an arriving frame nor a completed decode draws on the canvas or
\* writes the MediaPipe state.
C26_NoRenderWithoutView ==
  /\ [][canvas' # canvas => Decoded]_vars
  /\ [][~mounted => UNCHANGED <<canvas, visionVars>>]_vars

----------------------------------------------------------------------------
(* Properties of a failing Flex backend *)

\* C27: when a poll of the mounted component ends in the catch branch (the
\* fetch rejects or the body is not JSON), flexError and flexConnected are
\* the only state written: flexPrediction, flexValues, the MediaPipe state,
\* the canvas and matchResult are unchanged, a match or mismatch included.
C27_FailedPollWritesHealthOnly ==
  [][(mounted /\ PollSettles /\ FlexThrows(flexResponse'))
       => /\ flexError' = FlexErrorMessage
          /\ flexConnected' = FALSE
          /\ UNCHANGED <<flexPrediction, flexValues, visionVars, canvas,
                         matchResult, isRunning>>]_vars

\* A match is displayed while the poll settled last had a body that is not
\* JSON
C27_Witness ==
  /\ mounted
  /\ flexResponse = Response(TRUE, Malformed)
  /\ flexError = FlexErrorMessage
  /\ ~flexConnected
  /\ matchResult.status = "match"
  /\ mediapipePrediction # Null

----------------------------------------------------------------------------
(* Properties of the flip buttons *)

\* The Horizontal button then the Vertical button were clicked, starting
\* from flips that no answer to fetchCameraStatus could still change
TwoFlips ==
  /\ mounted
  /\ flipLog.clicks = <<"horizontal", "vertical">>
  /\ flipLog.settled

\* No request of setFlipHandler awaits its response
FlipsAnswered ==
  \A i \in 1..Len(cameraRequests) : ~Awaits(i, "/set_rotation", "flip_horizontal")

\* C28: after a click on Horizontal then a click on Vertical, the request
\* sent last asks for both flips toggled from where they started, and once
\* both requests have been answered with success and applied, flipHorizontal
\* and flipVertical are both toggled from where they started.
C28_BothFlipsTakeEffect ==
  TwoFlips
    => /\ flipLog.last = [flip_horizontal |-> Not(flipLog.start[1]),
                          flip_vertical |-> Not(flipLog.start[2])]
       /\ (FlipsAnswered /\ flipLog.applied = 2)
            => /\ flipHorizontal = Not(flipLog.start[1])
               /\ flipVertical = Not(flipLog.start[2])

----------------------------------------------------------------------------
(* Properties of the health flags and of the running flag *)

\* C29: in every reachable state flexConnected implies flexError = null and
\* mediapipeConnected implies mediapipeError = null; a step that sets a
\* connected flag leaves the adapter's error null, and a step that sets an
\* error leaves the adapter's connected flag false.
C29_ConnectedImpliesNoError ==
  /\ [](flexConnected => flexError = Null)
  /\ [](mediapipeConnected => mediapipeError = Null)
  /\ [][/\ (flexConnected' /\ ~flexConnected) => flexError' = Null
        /\ (mediapipeConnected' /\ ~mediapipeConnected)
             => mediapipeError' = Null
        /\ (flexError' # Null /\ flexError = Null) => ~flexConnected'
        /\ (mediapipeError' # Null /\ mediapipeError = Null)
             => ~mediapipeConnected']_vars

\* The socket is connected without an error while the Flex backend cannot
\* be reached
C29_Witness ==
  /\ mounted
  /\ mediapipeConnected
  /\ mediapipeError = Null
  /\ ~flexConnected
  /\ flexError = FlexErrorMessage

\* C30: while the component is mounted, isRunning holds exactly when
\* flexIntervalRef holds an armed interval and exactly when socketRef holds a
\* socket, also once the socket has given up reconnecting.
C30_RunningIffResourcesHeld ==
  mounted
    => /\ isRunning <=> (Truthy(flexIntervalRef) /\ timers > 0)
       /\ isRunning <=> Truthy(socketRef)
       /\ ~isRunning => (~Truthy(flexIntervalRef) /\ timers = 0)

\* The socket has given up reconnecting while the component is running
C30_Witness ==
  /\ mounted
  /\ isRunning
  /\ socketState = "failed"
  /\ Truthy(socketRef)
  /\ Truthy(flexIntervalRef)
  /\ timers = 1

----------------------------------------------------------------------------
(* Properties of stopping, of frame arrival and of overlapping polls *)

\* The control button has run stopAll in this step
Stopped == mounted /\ isRunning /\ ~isRunning'

\* C31: the stopAll of the control button clears the interval, closes the
\* socket, clears isRunning and mediapipeConnected, and leaves
\* flexPrediction, flexValues, flexConnected, flexError,
\* mediapipePrediction, mediapipeError, matchResult and the canvas as they
\* were just before.
C31_StopAllKeepsResults ==
  [][Stopped
       => /\ ~Truthy(flexIntervalRef') /\ timers' = 0
          /\ ~Truthy(socketRef') /\ sockets' = 0
          /\ ~mediapipeConnected'
          /\ UNCHANGED <<flexPrediction, flexValues, flexConnected, flexError,
                         mediapipePrediction, mediapipeError, matchResult,
                         canvas>>]_vars

\* The component was stopped while it showed a match and a connected Flex
\* backend, and still shows them
C31_Witness ==
  /\ mounted
  /\ ~isRunning
  /\ ~Truthy(socketRef)
  /\ ~mediapipeConnected
  /\ flexConnected
  /\ matchResult.status = "match"

\* A new_frame event has been received in this step
Arrived == Len(pendingImages') > Len(pendingImages)

\* C32: mediapipePrediction changes only in the step in which the image of
\* a received frame completes its decode, the step that draws that frame,
\* and it becomes the prediction of that frame; the arrival of a frame
\* changes neither the prediction, the verdict nor the canvas, and a frame
\* whose image fails to decode leaves the three as they were, whatever its
\* list of predictions.
C32_PredictionChangesAtDecode ==
  [][/\ mediapipePrediction' # mediapipePrediction
          => /\ Decoded
             /\ canvas' = DrawFrame(lastFrame')
             /\ mediapipePrediction' = FramePrediction(lastFrame')
     /\ Arrived
          => UNCHANGED <<mediapipePrediction, matchResult, canvas>>
     /\ (Len(pendingImages') < Len(pendingImages) /\ ~Decoded)
          => UNCHANGED <<mediapipePrediction, matchResult, canvas>>]_vars

\* A frame without a detection has arrived and is being decoded, and the
\* prediction of the frame drawn before it is still shown
C32_Witness ==
  /\ mounted
  /\ Len(pendingImages) > 0
  /\ BoxesOf(pendingImages[1]) = <<>>
  /\ mediapipePrediction # Null
  /\ mediapipePrediction = FramePrediction(lastFrame)
  /\ canvas = DrawFrame(lastFrame)

\* The Flex state holds what fetchFlexPrediction writes for the outcome resp
\* of a fetch: the health in every case, the prediction and the values when
\* the outcome does not reach the catch branch
Reflects(resp) ==
  IF FlexThrows(resp)
  THEN /\ ~flexConnected
       /\ flexError = FlexErrorMessage
  ELSE /\ flexConnected
       /\ flexError = Null
       /\ flexPrediction =
            [gesture |-> OptLower(resp.body.gesture),
             confidence |-> OrNull(resp.body.confidence),
             classId |-> resp.body.predicted_class]
       /\ flexValues = OrNull(resp.body.latest_values)

\* C33: an armed interval issues a poll at every tick whether or not an
\* earlier poll is still in flight, and once a poll has settled the Flex
\* state of the mounted component is the one written for the poll that
\* settled last, whether that poll was issued before or after the polls
\* still in flight.
C33_LastCompletedWins ==
  /\ (timers > 0 /\ flexInFlight < MaxInFlight) => ENABLED FlexTick
  /\ (mounted /\ flexResponse # NoResponse) => Reflects(flexResponse)

\* A poll has settled with a prediction while a poll issued before it is
\* still in flight, and the interval can issue a further poll
C33_Witness ==
  /\ mounted
  /\ timers > 0
  /\ staleRequests > 0
  /\ flexInFlight > 0
  /\ ~FlexThrows(flexResponse)
  /\ flexPrediction.gesture = Str(<<"f">>)
  /\ Reflects(flexResponse)

====
